---- MODULE Spec2Model ----
(***************************************************************************)
(* Model of src/lib/layouts/RecipeCategory.svelte: the category layout of  *)
(* the recipes section.  The component reads the $categories store and the *)
(* $page store; its instance script resolves childrenNodes once, and its   *)
(* markup renders the table of contents and the list of child links.       *)
(***************************************************************************)
EXTENDS Naturals, Sequences, FiniteSets

VARIABLES categories, pathname, phase, childrenNodes, tocLinks, childLinks

vars == <<categories, pathname, phase, childrenNodes, tocLinks, childLinks>>

----------------------------------------------------------------------------
(* Bounds of the model. *)

MaxNodes == 2

MaxPathLen == 3

----------------------------------------------------------------------------
(* JavaScript values held in a node's children field. *)

Undefined == [type |-> "undefined", items |-> <<>>]

Arr(s) == [type |-> "array", items |-> s]

Falsy(v) == v.type = "undefined"

(* Strings are sequences of characters. *)
Alphabet == {"a", "b"}

RECURSIVE SeqsUpTo(_, _)
SeqsUpTo(S, n) ==
    IF n = 0 THEN {<<>>}
    ELSE LET shorter == SeqsUpTo(S, n - 1)
         IN  shorter \cup {Append(s, x) : s \in shorter, x \in S}

(* Values $page.url.pathname can take. *)
Paths == SeqsUpTo(Alphabet, MaxPathLen)

(* Child entries: only path and title are read by the markup. *)
ChildX == [path |-> <<"a", "a">>, title |-> "X"]

ChildY == [path |-> <<"a", "b">>, title |-> "Y"]

ChildrenValues ==
    {Undefined, Arr(<<>>), Arr(<<ChildX>>), Arr(<<ChildX, ChildY>>), Arr(<<ChildY, ChildX>>)}

NodePaths == {<<"a">>, <<"b">>, <<"a", "b">>}

CategoryNodes ==
    [path : NodePaths, title : {"A"}, icon : {"folder"}, children : ChildrenValues]

(* Values of the $categories store. *)
Trees == SeqsUpTo(CategoryNodes, MaxNodes)

----------------------------------------------------------------------------
(* String.prototype.includes: s contains t as a contiguous substring. *)
Includes(s, t) ==
    /\ Len(t) <= Len(s)
    /\ \E i \in 0..(Len(s) - Len(t)) : SubSeq(s, i + 1, i + Len(t)) = t

(* Array.prototype.find with the predicate c.path === p: the index of the *)
(* first element that satisfies it, 0 standing for the result undefined.  *)
RECURSIVE FindFrom(_, _, _)
FindFrom(cats, p, i) ==
    IF i > Len(cats) THEN 0
    ELSE IF cats[i].path = p THEN i
    ELSE FindFrom(cats, p, i + 1)

FindLast(cats, p) ==
    IF \E i \in 1..Len(cats) : cats[i].path = p
    THEN CHOOSE i \in 1..Len(cats) :
            /\ cats[i].path = p
            /\ \A j \in (i + 1)..Len(cats) : cats[j].path # p
    ELSE 0

Find(cats, p) == FindFrom(cats, p, 1)

(* v || [] *)
OrKeep(v) == v

OrEmpty(v) == IF Falsy(v) THEN Arr(<<>>) ELSE v

(* Line 7: $categories.find((c) => c.path === $page.url.pathname).children || [] *)
(* Reading .children of undefined throws a TypeError.                          *)
InstanceScript(cats, p) ==
    LET i == Find(cats, p)
    IN  IF i = 0
        THEN [thrown |-> TRUE, value |-> Undefined]
        ELSE [thrown |-> FALSE, value |-> OrEmpty(cats[i].children)]

(* {#each $categories as node} ... class:active={$page.url.pathname.includes(node.path)} *)
TOCList(cats, p) ==
    [i \in 1..Len(cats) |->
        [path |-> cats[i].path, title |-> cats[i].title, icon |-> cats[i].icon,
         active |-> Includes(p, cats[i].path)]]

(* {#each childrenNodes as node} <li><a href={node.path}>{node.title}</a></li> *)
ChildListReversed(nodes) ==
    [i \in 1..Len(nodes) |->
        [path |-> nodes[Len(nodes) + 1 - i].path, title |-> nodes[Len(nodes) + 1 - i].title]]

ChildList(nodes) ==
    [i \in 1..Len(nodes) |-> [path |-> nodes[i].path, title |-> nodes[i].title]]

----------------------------------------------------------------------------
TypeOK ==
    /\ categories \in Trees
    /\ pathname \in Paths
    /\ phase \in {"unmounted", "mounted", "crashed"}

Init ==
    /\ categories \in Trees
    /\ pathname \in Paths
    /\ phase = "unmounted"
    /\ childrenNodes = <<>>
    /\ tocLinks = <<>>
    /\ childLinks = <<>>

(* The component is instantiated: the instance script runs, then the       *)
(* fragment is created.  An exception in the script, or an each block over *)
(* a value that is no array, leaves nothing rendered.                      *)
MountReversingStore ==
    /\ phase = "unmounted"
    /\ LET r == InstanceScript(categories, pathname)
       IN  IF r.thrown \/ r.value.type # "array"
           THEN /\ phase' = "crashed"
                /\ childrenNodes' = <<>>
                /\ tocLinks' = <<>>
                /\ childLinks' = <<>>
           ELSE /\ phase' = "mounted"
                /\ childrenNodes' = r.value.items
                /\ tocLinks' = TOCList(categories, pathname)
                /\ childLinks' = ChildList(r.value.items)
    /\ categories' = [i \in 1..Len(categories) |-> categories[Len(categories) + 1 - i]]
    /\ UNCHANGED pathname

Mount ==
    /\ phase = "unmounted"
    /\ LET r == InstanceScript(categories, pathname)
       IN  IF r.thrown \/ r.value.type # "array"
           THEN /\ phase' = "crashed"
                /\ childrenNodes' = <<>>
                /\ tocLinks' = <<>>
                /\ childLinks' = <<>>
           ELSE /\ phase' = "mounted"
                /\ childrenNodes' = r.value.items
                /\ tocLinks' = TOCList(categories, pathname)
                /\ childLinks' = ChildList(r.value.items)
    /\ UNCHANGED <<categories, pathname>>

(* The $page store is set to a new url.  A mounted component is            *)
(* invalidated and its markup is updated: the class:active expressions     *)
(* read $page, the each block over the const childrenNodes does not.       *)
Goto(p) ==
    /\ p # pathname
    /\ pathname' = p
    /\ IF phase = "mounted"
       THEN /\ tocLinks' = TOCList(categories, p)
            /\ childLinks' = ChildList(childrenNodes)
       ELSE UNCHANGED <<tocLinks, childLinks>>
    /\ UNCHANGED <<categories, phase, childrenNodes>>

(* The component (or the error left by its failed construction) goes away. *)
Destroy ==
    /\ phase # "unmounted"
    /\ phase' = "unmounted"
    /\ childrenNodes' = <<>>
    /\ tocLinks' = <<>>
    /\ childLinks' = <<>>
    /\ UNCHANGED <<categories, pathname>>

Next ==
    \/ Mount
    \/ \E p \in Paths : Goto(p)
    \/ Destroy

Spec == Init /\ [][Next]_vars

----------------------------------------------------------------------------
(* Vocabulary of the properties, stated without the operators above. *)

HasExact(cats, p) == \E i \in 1..Len(cats) : cats[i].path = p

FirstExact(cats, p) ==
    CHOOSE i \in 1..Len(cats) :
        /\ cats[i].path = p
        /\ \A j \in 1..(i - 1) : cats[j].path # p

Substring(s, t) ==
    \E i \in 0..Len(s) : \E j \in i..Len(s) : SubSeq(s, i + 1, j) = t

KidsOf(n) == IF n.children.type = "array" THEN n.children.items ELSE <<>>

LinksOf(kids) == [k \in 1..Len(kids) |-> [path |-> kids[k].path, title |-> kids[k].title]]

(* A step that constructs the view: the render of the current path. *)
MountStep == phase = "unmounted" /\ phase' # "unmounted"

(* C1: a render with a path that equals no top-level node's path shows an *)
(* empty child list.                                                       *)
C1_EmptyChildListWhenNoMatch ==
    [][(MountStep /\ ~HasExact(categories, pathname))
          => (phase' = "mounted" /\ childLinks' = <<>>)]_vars

(* C2: rendering the view never raises an error, whatever the tree and *)
(* the current path.                                                    *)
C2_RenderNeverThrows == phase # "crashed"

(* C3: a render with a path that equals some top-level node's path shows  *)
(* the children of the first such node in store order, and of no other.   *)
C3_ChildrenOfFirstMatch ==
    [][(MountStep /\ HasExact(categories, pathname))
          => LET n == categories[FirstExact(categories, pathname)]
             IN  /\ phase' = "mounted"
                 /\ childrenNodes' = KidsOf(n)
                 /\ childLinks' = LinksOf(KidsOf(n))]_vars

C3_Witness ==
    /\ phase = "mounted"
    /\ \E i \in 1..Len(categories) : \E j \in (i + 1)..Len(categories) :
          /\ categories[i].path = pathname
          /\ categories[j].path = pathname
          /\ \A h \in 1..(i - 1) : categories[h].path # pathname
          /\ KidsOf(categories[i]) # <<>>
          /\ KidsOf(categories[j]) # KidsOf(categories[i])
          /\ childrenNodes = KidsOf(categories[i])
          /\ childLinks = LinksOf(KidsOf(categories[i]))

(* C4: once a path has been rendered, every top-level node has a sidebar *)
(* entry that is active exactly when the current path contains the       *)
(* node's path as a contiguous substring.                                *)
C4_ActiveIffSubstring ==
    phase # "unmounted" =>
        /\ Len(tocLinks) = Len(categories)
        /\ \A i \in 1..Len(categories) :
              tocLinks[i].active <=> Substring(pathname, categories[i].path)

(* C5: a render with a path that contains a top-level node's path but     *)
(* equals none shows that node active and shows an empty child list.      *)
C5_DescendantPath ==
    [][(/\ MountStep
        /\ ~HasExact(categories, pathname)
        /\ \E i \in 1..Len(categories) : Substring(pathname, categories[i].path))
          => /\ phase' = "mounted"
             /\ childLinks' = <<>>
             /\ Len(tocLinks') = Len(categories)
             /\ \A i \in 1..Len(categories) :
                   Substring(pathname, categories[i].path) => tocLinks'[i].active]_vars

(* C6: once a path has been rendered, the sidebar lists every top-level *)
(* node exactly once, in store order.                                    *)
C6_TopLevelOrderPreserved ==
    phase # "unmounted" =>
        /\ Len(tocLinks) = Len(categories)
        /\ \A i \in 1..Len(categories) :
              /\ tocLinks[i].path = categories[i].path
              /\ tocLinks[i].title = categories[i].title
              /\ tocLinks[i].icon = categories[i].icon

(* C7: when the rendered path has an active node, the child list has one *)
(* entry per child of that node, the k-th entry being the k-th child.    *)
C7_ChildOrderPreserved ==
    [][(MountStep /\ HasExact(categories, pathname))
          => LET kids == KidsOf(categories[FirstExact(categories, pathname)])
             IN  /\ Len(childLinks') = Len(kids)
                 /\ \A k \in 1..Len(kids) :
                       /\ childLinks'[k].path = kids[k].path
                       /\ childLinks'[k].title = kids[k].title]_vars

C7_Witness ==
    /\ phase = "mounted"
    /\ HasExact(categories, pathname)
    /\ Len(childLinks) >= 2
    /\ childLinks[1] # childLinks[2]
    /\ LET kids == KidsOf(categories[FirstExact(categories, pathname)])
       IN  /\ Len(kids) = Len(childLinks)
           /\ \A k \in 1..Len(kids) : childLinks[k].path = kids[k].path

(* C8: no step of the view (construction, update on a path change, *)
(* destruction) changes the category tree.                          *)
C8_TreeUnchanged == [][categories' = categories]_vars

C8_Witness ==
    /\ phase = "mounted"
    /\ Len(categories) >= 2
    /\ categories[1] # categories[2]
    /\ childLinks # <<>>
    /\ \E i \in 1..Len(tocLinks) : tocLinks[i].active

(* C9: while the view is mounted, the child list and the active flags are *)
(* those of the latest current path.                                       *)
C9_FollowsLatestPath ==
    phase = "mounted" =>
        /\ childLinks =
              IF HasExact(categories, pathname)
              THEN LinksOf(KidsOf(categories[FirstExact(categories, pathname)]))
              ELSE <<>>
        /\ Len(tocLinks) = Len(categories)
        /\ \A i \in 1..Len(categories) :
              tocLinks[i].active <=> Substring(pathname, categories[i].path)

(* C10: a render with a path whose first matching node has no children *)
(* field shows an empty child list and raises no error.                *)
C10_AbsentChildrenRenderEmpty ==
    [][(/\ MountStep
        /\ HasExact(categories, pathname)
        /\ categories[FirstExact(categories, pathname)].children.type # "array")
          => (phase' = "mounted" /\ childLinks' = <<>>)]_vars

C10_Witness ==
    /\ phase = "mounted"
    /\ HasExact(categories, pathname)
    /\ categories[FirstExact(categories, pathname)].children = Undefined
    /\ childLinks = <<>>
    /\ Len(tocLinks) = Len(categories)

====
